---- MODULE Spec2Model ----
(***************************************************************************)
(* KELP Environmental Laboratory financial model (src/kelp_app.py).        *)
(*                                                                         *)
(* The script is re-run from top to bottom on every widget interaction:    *)
(* the state is the widget values kept in the session, and every derived   *)
(* figure is recomputed from them.  Python floats are modelled as exact    *)
(* rationals over arbitrary-precision naturals; float('inf') is the        *)
(* rational with denominator zero.  The only rounded operation is `**`,    *)
(* which keeps PowLimbs base-10^4 limbs after the point (16 decimals, the  *)
(* precision of a double).                                                 *)
(***************************************************************************)
EXTENDS Integers, Sequences, FiniteSets, TLC

(***************************************************************************)
(* Arbitrary-precision naturals: little-endian sequences of limbs in       *)
(* 0..Base-1 with no leading zero limb; zero is the empty sequence.        *)
(***************************************************************************)
Base == 100 * 100

RECURSIVE BFromInt(_)
BFromInt(n) == IF n = 0 THEN <<>> ELSE <<n % Base>> \o BFromInt(n \div Base)

RECURSIVE BStrip(_)
BStrip(a) ==
  IF a = <<>> THEN <<>>
  ELSE IF a[Len(a)] = 0 THEN BStrip(SubSeq(a, 1, Len(a) - 1)) ELSE a

RECURSIVE BAddC(_, _, _)
BAddC(a, b, c) ==
  IF a = <<>> /\ b = <<>> THEN (IF c = 0 THEN <<>> ELSE <<c>>)
  ELSE LET x == IF a = <<>> THEN 0 ELSE a[1]
           y == IF b = <<>> THEN 0 ELSE b[1]
           s == x + y + c
       IN  <<s % Base>> \o BAddC(IF a = <<>> THEN a ELSE Tail(a),
                                 IF b = <<>> THEN b ELSE Tail(b), s \div Base)

BAdd(a, b) == BAddC(a, b, 0)

\* a - b for a >= b, before stripping
RECURSIVE BSubC(_, _, _)
BSubC(a, b, c) ==
  IF a = <<>> THEN <<>>
  ELSE LET y == IF b = <<>> THEN 0 ELSE b[1]
           s == a[1] - y - c
       IN  <<IF s < 0 THEN s + Base ELSE s>>
             \o BSubC(Tail(a), IF b = <<>> THEN b ELSE Tail(b), IF s < 0 THEN 1 ELSE 0)

BSub(a, b) == BStrip(BSubC(a, b, 0))

\* -1, 0, 1 as a < b, a = b, a > b
RECURSIVE BCmpAt(_, _, _)
BCmpAt(a, b, i) ==
  IF i = 0 THEN 0
  ELSE IF a[i] < b[i] THEN -1
  ELSE IF a[i] > b[i] THEN 1
  ELSE BCmpAt(a, b, i - 1)

BCmp(a, b) ==
  IF Len(a) < Len(b) THEN -1
  ELSE IF Len(a) > Len(b) THEN 1
  ELSE BCmpAt(a, b, Len(a))

\* a * k + c for a limb-sized k
RECURSIVE BMulS(_, _, _)
BMulS(a, k, c) ==
  IF a = <<>> THEN (IF c = 0 THEN <<>> ELSE <<c>>)
  ELSE LET s == a[1] * k + c
       IN  <<s % Base>> \o BMulS(Tail(a), k, s \div Base)

RECURSIVE BMul(_, _)
BMul(a, b) ==
  IF a = <<>> \/ b = <<>> THEN <<>>
  ELSE LET lo == IF a[1] = 0 THEN <<>> ELSE BMulS(b, a[1], 0)
           hi == BMul(Tail(a), b)
       IN  BAdd(lo, IF hi = <<>> THEN <<>> ELSE <<0>> \o hi)

\* <<a \div k, a % k>> for a limb-sized k, from the top limb down
RECURSIVE BDivS(_, _)
BDivS(a, k) ==
  IF a = <<>> THEN <<(<<>>), 0>>
  ELSE LET up == BDivS(Tail(a), k)
           t  == up[2] * Base + a[1]
       IN  <<BStrip(<<t \div k>> \o up[1]), t % k>>

BToInt(a) == IF a = <<>> THEN 0 ELSE IF Len(a) = 1 THEN a[1] ELSE a[1] + Base * a[2]

(***************************************************************************)
(* Python floats as exact rationals [s, n, d]: sign s in {-1, 0, 1},       *)
(* numerator magnitude n and denominator d as naturals.  Fractions are not *)
(* reduced, except that common factors of Base are dropped; values are     *)
(* compared by cross-multiplication.  d = 0 with s = 1 is float('inf');    *)
(* d = 0 with s = 0 stands for the ZeroDivisionError Python raises.        *)
(***************************************************************************)
R(i) == [s |-> IF i > 0 THEN 1 ELSE IF i < 0 THEN -1 ELSE 0,
         n |-> BFromInt(IF i < 0 THEN -i ELSE i), d |-> <<1>>]

\* the float written as the decimal i / 10^k, e.g. 3.50 is Dec(350, 2)
Dec(i, k) == [s |-> IF i > 0 THEN 1 ELSE 0, n |-> BFromInt(i),
              d |-> BFromInt(IF k = 0 THEN 1 ELSE IF k = 1 THEN 10 ELSE 100)]

Inf == [s |-> 1, n |-> <<1>>, d |-> <<>>]

ZeroDivisionError == [s |-> 0, n |-> <<>>, d |-> <<>>]

IsInf(x) == x = Inf

RECURSIVE RNorm(_)
RNorm(x) ==
  IF x.d = <<>> THEN (IF x.s = 0 THEN ZeroDivisionError ELSE Inf)
  ELSE IF x.n = <<>> THEN [s |-> 0, n |-> <<>>, d |-> <<1>>]
  ELSE IF x.n[1] = 0 /\ x.d[1] = 0 /\ Len(x.d) > 1
       THEN RNorm([s |-> x.s, n |-> Tail(x.n), d |-> Tail(x.d)])
       ELSE x

RNeg(x) == [s |-> 0 - x.s, n |-> x.n, d |-> x.d]

RMul(a, b) == RNorm([s |-> a.s * b.s, n |-> BMul(a.n, b.n), d |-> BMul(a.d, b.d)])

RDiv(a, b) ==
  IF b.s = 0 THEN ZeroDivisionError
  ELSE RNorm([s |-> a.s * b.s, n |-> BMul(a.n, b.d), d |-> BMul(a.d, b.n)])

\* signed sum of two numerators over one denominator d
SAdd(sa, na, sb, nb, d) ==
  IF sa = 0 THEN RNorm([s |-> sb, n |-> nb, d |-> d])
  ELSE IF sb = 0 THEN RNorm([s |-> sa, n |-> na, d |-> d])
  ELSE IF sa = sb THEN RNorm([s |-> sa, n |-> BAdd(na, nb), d |-> d])
  ELSE LET c == BCmp(na, nb)
       IN  IF c = 0 THEN [s |-> 0, n |-> <<>>, d |-> <<1>>]
           ELSE IF c > 0 THEN RNorm([s |-> sa, n |-> BSub(na, nb), d |-> d])
           ELSE RNorm([s |-> sb, n |-> BSub(nb, na), d |-> d])

RAdd(a, b) ==
  IF a.d = b.d THEN SAdd(a.s, a.n, b.s, b.n, a.d)
  ELSE SAdd(a.s, BMul(a.n, b.d), b.s, BMul(b.n, a.d), BMul(a.d, b.d))

RSub(a, b) == RAdd(a, RNeg(b))

\* -1, 0, 1 as a < b, a = b, a > b (finite a and b)
RCmp(a, b) ==
  IF a.s # b.s THEN (IF a.s < b.s THEN -1 ELSE 1)
  ELSE IF a.s = 0 THEN 0
  ELSE a.s * BCmp(BMul(a.n, b.d), BMul(b.n, a.d))

REq(a, b) == IF IsInf(a) \/ IsInf(b) THEN IsInf(a) /\ IsInf(b) ELSE RCmp(a, b) = 0
RLt(a, b) == IF IsInf(a) THEN FALSE ELSE IF IsInf(b) THEN TRUE ELSE RCmp(a, b) < 0
RLe(a, b) == IF IsInf(b) THEN TRUE ELSE IF IsInf(a) THEN FALSE ELSE RCmp(a, b) <= 0
RGt(a, b) == RLt(b, a)
RGe(a, b) == RLe(b, a)

RECURSIVE RSum(_)
RSum(xs) == IF xs = <<>> THEN R(0) ELSE RAdd(RSum(SubSeq(xs, 1, Len(xs) - 1)), xs[Len(xs)])

(***************************************************************************)
(* x ** n for x > 0 with a limb-sized denominator: fixed point with        *)
(* PowLimbs limbs after the point, truncating after every product.         *)
(***************************************************************************)
PowLimbs == 4

RECURSIVE Zeros(_)
Zeros(k) == IF k = 0 THEN <<>> ELSE <<0>> \o Zeros(k - 1)

FixOne == Zeros(PowLimbs) \o <<1>>

ToFix(x) == BDivS(Zeros(PowLimbs) \o x.n, BToInt(x.d))[1]

FixMul(a, b) ==
  LET p == BMul(a, b) IN IF Len(p) <= PowLimbs THEN <<>> ELSE SubSeq(p, PowLimbs + 1, Len(p))

RECURSIVE FixPow(_, _)
FixPow(f, n) ==
  IF n = 0 THEN FixOne
  ELSE LET h  == FixPow(f, n \div 2)
           sq == FixMul(h, h)
       IN  IF n % 2 = 1 THEN FixMul(sq, f) ELSE sq

RPow(x, n) == RNorm([s |-> 1, n |-> FixPow(ToFix(x), n), d |-> FixOne])

(***************************************************************************)
(* The session: the widget-bound values the script reads (lines 172-297,   *)
(* 449, 484-488) and the session keys no widget binds, which stay at their *)
(* defaults (lines 26-127).  ledger is the uploaded operating-budget       *)
(* table's Monthly USD column (spec 4.1, 6); the script under src/ has no  *)
(* upload, so it is empty there.  calc_in and calc_out hold the arguments  *)
(* and results of the break-even calculation applied on its own, to inputs *)
(* of the documented ranges (spec 3) that the widget limits exclude.       *)
(***************************************************************************)
VARIABLES ss, ledger, calc_in, calc_out

vars == <<ss, ledger, calc_in, calc_out>>

defaults ==
  [ launch_year |-> 2026,
    lab_size_sqft |-> 5000, lab_fitout_cost_per_sqft |-> 850,
    monthly_rent_per_sqft |-> Dec(350, 2),
    utilities_monthly |-> 8000, lab_cleaning |-> 2500, waste_disposal |-> 4000,
    icp_ms_cost |-> 175400, ic_system_cost |-> 48300, hplc_ms_cost |-> 303500,
    gc_ms_cost |-> 120000, microscopy_cost |-> 45000, sample_prep_equipment |-> 60000,
    lab_furniture |-> 40000, other_equipment |-> 75000,
    lease_icp_ms |-> TRUE, lease_ic_system |-> TRUE, lease_hplc_ms |-> TRUE,
    equipment_financing_rate |-> Dec(55, 1), equipment_financing_years |-> 7,
    icp_ms_lease_payment |-> 3300, ic_system_lease_payment |-> 1400,
    hplc_ms_lease_payment |-> 9300,
    laboratory_director |-> 1, director_salary |-> 185000,
    senior_scientists |-> 2, scientist_salary |-> 140000,
    lab_technicians |-> 4, technician_salary |-> 65000,
    quality_manager |-> 1, qa_manager_salary |-> 125000,
    admin_staff |-> Dec(15, 1), admin_salary |-> 58000,
    benefits_percent |-> 32,
    nelap_certification_cost |-> 15000, annual_nelap_renewal |-> 8000,
    state_certification_costs |-> 12000, quality_system_consultant |-> 18000,
    reagents_monthly |-> 12000, gases_monthly |-> 3500,
    labware_consumables |-> 6000, maintenance_contracts |-> 15000,
    lims_system_annual |-> 24000, it_infrastructure |-> 8000,
    general_liability |-> 4500, professional_liability |-> 6000,
    property_insurance |-> 3200, workers_comp |-> 8500,
    pfas_test_price |-> 450, metals_analysis_price |-> 180, microbiology_price |-> 85,
    voc_analysis_price |-> 220, general_chemistry_price |-> 120,
    specialty_testing_price |-> 350,
    monthly_samples |-> 800,
    pfas_percent |-> 15, metals_percent |-> 35, microbiology_percent |-> 25,
    voc_percent |-> 15, general_chem_percent |-> 8, specialty_percent |-> 2,
    pfas_variable_cost |-> 75, metals_variable_cost |-> 25,
    microbiology_variable_cost |-> 15, voc_variable_cost |-> 35,
    general_chem_variable_cost |-> 18, specialty_variable_cost |-> 65,
    \* sliders without a session key: their initial values
    max_samples |-> 2000, sample_growth |-> 15, price_growth |-> 4, cost_inflation |-> 5 ]

(***************************************************************************)
(* Equipment and financing (lines 220-256).                                *)
(***************************************************************************)
calculate_monthly_payment(principal, annual_rate, years) ==
  IF RLe(principal, R(0)) THEN R(0)
  ELSE LET monthly_rate == RDiv(RDiv(annual_rate, R(100)), R(12))
           months == years * 12
           growth == RPow(RAdd(R(1), monthly_rate), months)
       IN  IF monthly_rate.s = 0 THEN RDiv(principal, R(months))
           ELSE RDiv(RMul(principal, RMul(monthly_rate, growth)), RSub(growth, R(1)))

leased_equipment(s) ==
    (IF s.lease_icp_ms THEN s.icp_ms_cost ELSE 0)
  + (IF s.lease_ic_system THEN s.ic_system_cost ELSE 0)
  + (IF s.lease_hplc_ms THEN s.hplc_ms_cost ELSE 0)

monthly_lease_total(s) ==
    (IF s.lease_icp_ms THEN s.icp_ms_lease_payment ELSE 0)
  + (IF s.lease_ic_system THEN s.ic_system_lease_payment ELSE 0)
  + (IF s.lease_hplc_ms THEN s.hplc_ms_lease_payment ELSE 0)

\* mutant: the ICP-MS counted as purchased whether leased or not
purchased_equipment_with_icp(s) ==
    s.icp_ms_cost
  + (IF s.lease_ic_system THEN 0 ELSE s.ic_system_cost)
  + (IF s.lease_hplc_ms THEN 0 ELSE s.hplc_ms_cost)
  + (s.gc_ms_cost + s.microscopy_cost + s.sample_prep_equipment + s.lab_furniture
     + s.other_equipment)

purchased_equipment(s) ==
    (IF s.lease_icp_ms THEN 0 ELSE s.icp_ms_cost)
  + (IF s.lease_ic_system THEN 0 ELSE s.ic_system_cost)
  + (IF s.lease_hplc_ms THEN 0 ELSE s.hplc_ms_cost)
  + (s.gc_ms_cost + s.microscopy_cost + s.sample_prep_equipment + s.lab_furniture
     + s.other_equipment)

equipment_total(s) == leased_equipment(s) + purchased_equipment(s)

\* line 256, first argument: 80% of the purchased equipment is financed
financed_principal(s) == RMul(R(purchased_equipment(s)), Dec(8, 1))

monthly_equipment_financing(s) ==
  calculate_monthly_payment(financed_principal(s),
                            s.equipment_financing_rate, s.equipment_financing_years)

(***************************************************************************)
(* Startup costs and monthly fixed costs (lines 307-341).                  *)
(***************************************************************************)
equipment_down_payment(s) == RMul(R(purchased_equipment(s)), Dec(2, 1))

monthly_rent(s) == RMul(R(s.lab_size_sqft), s.monthly_rent_per_sqft)

monthly_equipment_payments(s) ==
  RAdd(R(monthly_lease_total(s)), monthly_equipment_financing(s))

annual_payroll(s) ==
  RAdd(R(s.laboratory_director * s.director_salary
         + s.senior_scientists * s.scientist_salary
         + s.lab_technicians * s.technician_salary
         + s.quality_manager * s.qa_manager_salary),
       RMul(s.admin_staff, R(s.admin_salary)))

\* mutant: the benefits load left out
monthly_payroll_no_benefits(s) == RDiv(annual_payroll(s), R(12))

monthly_payroll(s) ==
  RDiv(RMul(annual_payroll(s), RAdd(R(1), RDiv(R(s.benefits_percent), R(100)))), R(12))

monthly_fixed(s) ==
  RSum(<< monthly_rent(s),
          monthly_equipment_payments(s),
          monthly_payroll(s),
          R(s.utilities_monthly),
          R(s.lab_cleaning),
          R(s.waste_disposal),
          R(s.reagents_monthly),
          R(s.gases_monthly),
          R(s.labware_consumables),
          R(s.maintenance_contracts),
          RDiv(R(s.lims_system_annual), R(12)),
          RDiv(R(s.it_infrastructure), R(12)),
          RDiv(R(s.general_liability + s.professional_liability
                 + s.property_insurance + s.workers_comp), R(12)),
          RDiv(R(s.annual_nelap_renewal), R(12)) >>)

(***************************************************************************)
(* Operating-budget override (spec 4.1): a non-empty ledger's Monthly USD  *)
(* total replaces the manual sum.  Not in src/kelp_app.py.                 *)
(***************************************************************************)
RECURSIVE cost_from_csv(_)
cost_from_csv(led) == IF led = <<>> THEN R(0) ELSE RAdd(R(Head(led)), cost_from_csv(Tail(led)))

\* mutant: the ledger total added to the manual sum
monthlyFixedCost_additive(manualFixed, led) == RAdd(manualFixed, cost_from_csv(led))

monthlyFixedCost(manualFixed, led) ==
  IF led # <<>> THEN cost_from_csv(led) ELSE manualFixed

(***************************************************************************)
(* Revenue and variable cost per sample (lines 343-373).                   *)
(***************************************************************************)
Tests == <<"PFAS", "Metals", "Microbiology", "VOCs", "General Chemistry", "Specialty">>

test_mix(s) ==
  [t \in {Tests[i] : i \in 1..Len(Tests)} |->
     CASE t = "PFAS" -> RDiv(R(s.pfas_percent), R(100))
       [] t = "Metals" -> RDiv(R(s.metals_percent), R(100))
       [] t = "Microbiology" -> RDiv(R(s.microbiology_percent), R(100))
       [] t = "VOCs" -> RDiv(R(s.voc_percent), R(100))
       [] t = "General Chemistry" -> RDiv(R(s.general_chem_percent), R(100))
       [] t = "Specialty" -> RDiv(R(s.specialty_percent), R(100))]

test_prices(s) ==
  [t \in {Tests[i] : i \in 1..Len(Tests)} |->
     CASE t = "PFAS" -> s.pfas_test_price
       [] t = "Metals" -> s.metals_analysis_price
       [] t = "Microbiology" -> s.microbiology_price
       [] t = "VOCs" -> s.voc_analysis_price
       [] t = "General Chemistry" -> s.general_chemistry_price
       [] t = "Specialty" -> s.specialty_testing_price]

test_variable_costs(s) ==
  [t \in {Tests[i] : i \in 1..Len(Tests)} |->
     CASE t = "PFAS" -> s.pfas_variable_cost
       [] t = "Metals" -> s.metals_variable_cost
       [] t = "Microbiology" -> s.microbiology_variable_cost
       [] t = "VOCs" -> s.voc_variable_cost
       [] t = "General Chemistry" -> s.general_chem_variable_cost
       [] t = "Specialty" -> s.specialty_variable_cost]

\* mutant: the mix renormalised to sum to 1
avg_revenue_per_sample_normalized(s) ==
  LET mix == test_mix(s)
      prices == test_prices(s)
  IN  RDiv(RSum([i \in 1..Len(Tests) |-> RMul(mix[Tests[i]], R(prices[Tests[i]]))]),
           RSum([i \in 1..Len(Tests) |-> mix[Tests[i]]]))

avg_revenue_per_sample(s) ==
  LET mix == test_mix(s)
      prices == test_prices(s)
  IN  RSum([i \in 1..Len(Tests) |-> RMul(mix[Tests[i]], R(prices[Tests[i]]))])

avg_variable_cost_per_sample(s) ==
  LET mix == test_mix(s)
      costs == test_variable_costs(s)
  IN  RSum([i \in 1..Len(Tests) |-> RMul(mix[Tests[i]], R(costs[Tests[i]]))])

(***************************************************************************)
(* Monthly figures and break-even (lines 375-385).                         *)
(***************************************************************************)
monthly_revenue(samples, avg_revenue) == RMul(R(samples), avg_revenue)

monthly_variable_costs(samples, avg_variable_cost) == RMul(R(samples), avg_variable_cost)

contribution_margin(avg_revenue, avg_variable_cost) == RSub(avg_revenue, avg_variable_cost)

\* mutant: the operands of the division swapped
break_even_samples_swapped(fixed, margin) ==
  IF RGt(margin, R(0)) THEN RDiv(margin, fixed) ELSE Inf

\* mutant: only a zero margin guarded
break_even_samples_nonzero(fixed, margin) ==
  IF margin.s # 0 THEN RDiv(fixed, margin) ELSE Inf

break_even_samples(fixed, margin) ==
  IF RGt(margin, R(0)) THEN RDiv(fixed, margin) ELSE Inf

\* mutant: the variable costs not deducted
monthly_ebitda_gross(revenue, variable_costs, fixed) == RSub(revenue, fixed)

monthly_ebitda(revenue, variable_costs, fixed) == RSub(RSub(revenue, variable_costs), fixed)

(***************************************************************************)
(* What the dashboard shows.  A formatted number f"{x:,.0f}" is the record *)
(* [text |-> "number", of |-> x], or text "inf" when x is float('inf'): the *)
(* digits are not modelled, only which text is produced and from what.     *)
(***************************************************************************)
format_0f(x) == IF IsInf(x) THEN [text |-> "inf", of |-> x] ELSE [text |-> "number", of |-> x]

\* line 400
break_even_metric(break_even) ==
  IF break_even # Inf THEN format_0f(break_even) ELSE [text |-> "infinity symbol", of |-> break_even]

\* np.arange(start, stop, step) for step > 0
arange(start, stop, step) ==
  LET len == IF stop <= start THEN 0 ELSE (stop - start + step - 1) \div step
  IN  [i \in 1..len |-> start + (i - 1) * step]

\* mutant: the range stops before max_samples
profit_data_exclusive(max_samples, avg_revenue, avg_variable_cost, fixed) ==
  LET sample_range == arange(0, max_samples, 50)
  IN  [i \in 1..Len(sample_range) |->
         LET samples  == sample_range[i]
             revenue  == RMul(R(samples), avg_revenue)
             variable == RMul(R(samples), avg_variable_cost)
             profit   == RSub(RSub(revenue, variable), fixed)
         IN  [Samples |-> samples, MonthlyProfit |-> profit]]

\* lines 449-457
profit_data(max_samples, avg_revenue, avg_variable_cost, fixed) ==
  LET sample_range == arange(0, max_samples + 1, 50)
  IN  [i \in 1..Len(sample_range) |->
         LET samples  == sample_range[i]
             revenue  == RMul(R(samples), avg_revenue)
             variable == RMul(R(samples), avg_variable_cost)
             profit   == RSub(RSub(revenue, variable), fixed)
         IN  [Samples |-> samples, MonthlyProfit |-> profit]]

\* lines 467-471: the red rule, or the empty chart
break_even_line(break_even, max_samples) ==
  IF break_even # Inf /\ RLe(break_even, R(max_samples))
  THEN [mark |-> "rule", x |-> <<break_even>>]
  ELSE [mark |-> "none", x |-> <<>>]

\* lines 490-508: the loop's values for each year (the table cells show them
\* through format_0f)
\* mutant: the monthly volume, not annualised
year_samples_monthly(monthly_samples, sample_growth, year) ==
  RMul(R(monthly_samples), RPow(RAdd(R(1), RDiv(R(sample_growth), R(100))), year))

year_samples(monthly_samples, sample_growth, year) ==
  RMul(RMul(R(monthly_samples), RPow(RAdd(R(1), RDiv(R(sample_growth), R(100))), year)), R(12))

year_revenue(samples, avg_revenue, price_growth, year) ==
  RMul(RMul(samples, avg_revenue), RPow(RAdd(R(1), RDiv(R(price_growth), R(100))), year))

year_variable(samples, avg_variable_cost, cost_inflation, year) ==
  RMul(RMul(samples, avg_variable_cost), RPow(RAdd(R(1), RDiv(R(cost_inflation), R(100))), year))

\* mutant: the monthly fixed cost, not annualised
year_fixed_monthly(fixed, cost_inflation, year) ==
  RMul(fixed, RPow(RAdd(R(1), RDiv(R(cost_inflation), R(100))), year))

year_fixed(fixed, cost_inflation, year) ==
  RMul(RMul(fixed, R(12)), RPow(RAdd(R(1), RDiv(R(cost_inflation), R(100))), year))

year_ebitda(revenue, variable, fixed) == RSub(RSub(revenue, variable), fixed)

projection_data(s, avg_revenue, avg_variable_cost, fixed) ==
  LET years == arange(0, 5, 1)
  IN  [i \in 1..Len(years) |->
         LET year     == years[i]
             samples  == year_samples(s.monthly_samples, s.sample_growth, year)
             revenue  == year_revenue(samples, avg_revenue, s.price_growth, year)
             variable == year_variable(samples, avg_variable_cost, s.cost_inflation, year)
             yfixed   == year_fixed(fixed, s.cost_inflation, year)
         IN  [Year |-> s.launch_year + year, Samples |-> samples,
              Revenue |-> revenue, VariableCosts |-> variable,
              FixedCosts |-> yfixed, EBITDA |-> year_ebitda(revenue, variable, yfixed)]]

\* mutant: a profit of exactly zero reported as profitable
health_message_nonnegative(ebitda, samples, break_even) ==
  IF RGe(ebitda, R(0))
  THEN [kind |-> "success", break_even |-> <<>>]
  ELSE [kind |-> "warning", break_even |-> <<format_0f(break_even)>>]

\* lines 551-554
health_message(ebitda, samples, break_even) ==
  IF RGt(ebitda, R(0))
  THEN [kind |-> "success", break_even |-> <<>>]
  ELSE [kind |-> "warning", break_even |-> <<format_0f(break_even)>>]

(***************************************************************************)
(* Test portfolio rows, cost breakdown and insights (lines 413-431,        *)
(* 513-577).                                                               *)
(***************************************************************************)
\* lines 416-429: one row per test type, unformatted; the margin cell is
\* guarded by revenue > 0
portfolio_data(s) ==
  [t \in {Tests[i] : i \in 1..Len(Tests)} |->
     LET samples == RMul(R(s.monthly_samples), test_mix(s)[t])
         revenue == RMul(samples, R(test_prices(s)[t]))
         variable_cost == RMul(samples, R(test_variable_costs(s)[t]))
         contribution == RSub(revenue, variable_cost)
     IN  [ Volume |-> samples, Revenue |-> revenue, VariableCost |-> variable_cost,
           Contribution |-> contribution,
           MarginPct |-> IF RGt(revenue, R(0))
                         THEN RMul(RDiv(contribution, revenue), R(100))
                         ELSE R(0) ]]

\* mutant: waste disposal left out of the breakdown
cost_categories_no_waste(s) ==
  << [Category |-> "Payroll & Benefits", MonthlyCost |-> monthly_payroll(s)],
     [Category |-> "Facility Rent", MonthlyCost |-> monthly_rent(s)],
     [Category |-> "Equipment Payments", MonthlyCost |-> monthly_equipment_payments(s)],
     [Category |-> "Utilities & Cleaning", MonthlyCost |-> R(s.utilities_monthly + s.lab_cleaning)],
     [Category |-> "Consumables & Reagents",
      MonthlyCost |-> R(s.reagents_monthly + s.labware_consumables)],
     [Category |-> "Maintenance & Service", MonthlyCost |-> R(s.maintenance_contracts)],
     [Category |-> "IT & Software",
      MonthlyCost |-> RDiv(R(s.lims_system_annual + s.it_infrastructure), R(12))],
     [Category |-> "Insurance & Legal",
      MonthlyCost |-> RDiv(R(s.general_liability + s.professional_liability
                             + s.property_insurance + s.workers_comp), R(12))],
     [Category |-> "Certification & QA", MonthlyCost |-> RDiv(R(s.annual_nelap_renewal), R(12))],
     [Category |-> "Other Operations", MonthlyCost |-> R(s.gases_monthly)] >>

\* lines 516-528, in dictionary order
cost_categories(s) ==
  << [Category |-> "Payroll & Benefits", MonthlyCost |-> monthly_payroll(s)],
     [Category |-> "Facility Rent", MonthlyCost |-> monthly_rent(s)],
     [Category |-> "Equipment Payments", MonthlyCost |-> monthly_equipment_payments(s)],
     [Category |-> "Utilities & Cleaning", MonthlyCost |-> R(s.utilities_monthly + s.lab_cleaning)],
     [Category |-> "Consumables & Reagents",
      MonthlyCost |-> R(s.reagents_monthly + s.labware_consumables)],
     [Category |-> "Maintenance & Service", MonthlyCost |-> R(s.maintenance_contracts)],
     [Category |-> "IT & Software",
      MonthlyCost |-> RDiv(R(s.lims_system_annual + s.it_infrastructure), R(12))],
     [Category |-> "Insurance & Legal",
      MonthlyCost |-> RDiv(R(s.general_liability + s.professional_liability
                             + s.property_insurance + s.workers_comp), R(12))],
     [Category |-> "Certification & QA", MonthlyCost |-> RDiv(R(s.annual_nelap_renewal), R(12))],
     [Category |-> "Other Operations", MonthlyCost |-> R(s.waste_disposal + s.gases_monthly)] >>

\* line 556
margin_pct(ebitda, revenue) ==
  IF RGt(revenue, R(0)) THEN RMul(RDiv(ebitda, revenue), R(100)) ELSE R(0)

\* lines 566-567: the division by the price has no guard
test_margins(s) ==
  [t \in {Tests[i] : i \in 1..Len(Tests)} |->
     RDiv(RSub(R(test_prices(s)[t]), R(test_variable_costs(s)[t])), R(test_prices(s)[t]))]

\* line 568: max() keeps the first of equal maxima, in dictionary order
best_test(margins) ==
  LET best == CHOOSE i \in 1..Len(Tests) :
                /\ \A j \in 1..Len(Tests) : RGe(margins[Tests[i]], margins[Tests[j]])
                /\ \A j \in 1..(i - 1) : RLt(margins[Tests[j]], margins[Tests[i]])
  IN  Tests[best]

\* line 574: the ratio compared with 0.6; the division has no guard
payroll_share(payroll, fixed) == RDiv(payroll, fixed)

(***************************************************************************)
(* One run of the script on the session s, as the divisions it performs in *)
(* script order.  A division that raises ends the run: exception holds the *)
(* first one, and the figures after its line are never computed.           *)
(***************************************************************************)
run_script(s) ==
  LET tests == {Tests[i] : i \in 1..Len(Tests)}
      payment == monthly_equipment_financing(s)
      fixed == monthly_fixed(s)
      avg_revenue == avg_revenue_per_sample(s)
      avg_variable_cost == avg_variable_cost_per_sample(s)
      revenue == monthly_revenue(s.monthly_samples, avg_revenue)
      variable == monthly_variable_costs(s.monthly_samples, avg_variable_cost)
      margin == contribution_margin(avg_revenue, avg_variable_cost)
      breakeven == break_even_samples(fixed, margin)
      ebitda == monthly_ebitda(revenue, variable, fixed)
      portfolio == portfolio_data(s)
      overall == margin_pct(ebitda, revenue)
      margins == test_margins(s)
      share == payroll_share(monthly_payroll(s), fixed)
      divisions ==
        << [line |-> 256, raised |-> payment = ZeroDivisionError],
           [line |-> 381, raised |-> breakeven = ZeroDivisionError],
           [line |-> 423, raised |-> \E t \in tests : portfolio[t].MarginPct = ZeroDivisionError],
           [line |-> 556, raised |-> overall = ZeroDivisionError],
           [line |-> 566, raised |-> \E t \in tests : margins[t] = ZeroDivisionError],
           [line |-> 574, raised |-> share = ZeroDivisionError] >>
      failing == SelectSeq(divisions, LAMBDA d : d.raised)
  IN  [ exception |-> IF failing = <<>> THEN <<>>
                      ELSE <<[type |-> "ZeroDivisionError", line |-> failing[1].line]>>,
        monthly_equipment_financing |-> payment,
        monthly_fixed |-> fixed,
        break_even_samples |-> breakeven,
        margin_pct |-> overall,
        best_test |-> IF failing = <<>> THEN <<best_test(margins)>> ELSE <<>> ]

(***************************************************************************)
(* The figures of the current run.  The script keeps none of them between  *)
(* runs: each is recomputed from the session on every interaction, so each *)
(* is a function of the state.                                             *)
(***************************************************************************)
Fixed == monthlyFixedCost(monthly_fixed(ss), ledger)

AvgRevenue == avg_revenue_per_sample(ss)

AvgVariableCost == avg_variable_cost_per_sample(ss)

Margin == contribution_margin(AvgRevenue, AvgVariableCost)

BreakEven == break_even_samples(Fixed, Margin)

Ebitda ==
  monthly_ebitda(monthly_revenue(ss.monthly_samples, AvgRevenue),
                 monthly_variable_costs(ss.monthly_samples, AvgVariableCost), Fixed)

ProfitData == profit_data(ss.max_samples, AvgRevenue, AvgVariableCost, Fixed)

ProjectionData == projection_data(ss, AvgRevenue, AvgVariableCost, Fixed)

(***************************************************************************)
(* Lines 375-385, 400, 449-471 and 551-554 as one function of their        *)
(* inputs.                                                                 *)
(***************************************************************************)
Dashboard(a) ==
  LET revenue   == monthly_revenue(a.monthly_samples, a.avg_revenue_per_sample)
      variable  == monthly_variable_costs(a.monthly_samples, a.avg_variable_cost_per_sample)
      margin    == contribution_margin(a.avg_revenue_per_sample, a.avg_variable_cost_per_sample)
      breakeven == break_even_samples(a.monthly_fixed, margin)
      ebitda    == monthly_ebitda(revenue, variable, a.monthly_fixed)
  IN  [ contribution_margin |-> margin,
        break_even_samples |-> breakeven,
        monthly_ebitda |-> ebitda,
        break_even_metric |-> break_even_metric(breakeven),
        break_even_line |-> break_even_line(breakeven, a.max_samples),
        health_message |-> health_message(ebitda, a.monthly_samples, breakeven),
        profit_data |-> profit_data(a.max_samples, a.avg_revenue_per_sample,
                                    a.avg_variable_cost_per_sample, a.monthly_fixed) ]

(***************************************************************************)
(* Widget values tried, each within its widget's limits.                   *)
(***************************************************************************)
AdminStaffValues == {Dec(15, 1), Dec(20, 1)}
PfasPercentValues == {15, 0, 40}
MonthlySamplesValues == {800, 100, 1400}
MaxSamplesValues == {2000, 500}
SampleGrowthValues == {15, 0, 50}
PriceGrowthValues == {4, 0}
CostInflationValues == {5, 0}

Init == ss = defaults /\ ledger = <<>> /\ calc_in = <<>> /\ calc_out = <<>>

\* a widget interaction stores the new value in the session and re-runs the script
Set(field, v) ==
  /\ ss[field] # v
  /\ ss' = [ss EXCEPT ![field] = v]
  /\ UNCHANGED <<ledger, calc_in, calc_out>>

ToggleLeaseIcp == Set("lease_icp_ms", ~ss.lease_icp_ms)
ToggleLeaseIc == Set("lease_ic_system", ~ss.lease_ic_system)
ToggleLeaseHplc == Set("lease_hplc_ms", ~ss.lease_hplc_ms)
SetAdminStaff == \E v \in AdminStaffValues : Set("admin_staff", v)
SetPfasPercent == \E v \in PfasPercentValues : Set("pfas_percent", v)
SetMonthlySamples == \E v \in MonthlySamplesValues : Set("monthly_samples", v)
SetMaxSamples == \E v \in MaxSamplesValues : Set("max_samples", v)
SetSampleGrowth == \E v \in SampleGrowthValues : Set("sample_growth", v)
SetPriceGrowth == \E v \in PriceGrowthValues : Set("price_growth", v)
SetCostInflation == \E v \in CostInflationValues : Set("cost_inflation", v)

\* the sidebar and the profit chart's slider
Next ==
  \/ ToggleLeaseIcp
  \/ ToggleLeaseIc
  \/ ToggleLeaseHplc
  \/ SetAdminStaff
  \/ SetPfasPercent
  \/ SetMonthlySamples
  \/ SetMaxSamples

Spec == Init /\ [][Next]_vars

\* the sliders of the five-year projection, with the sidebar inputs that
\* change the fixed cost, the unit economics and the volume
NextProjection ==
  \/ SetSampleGrowth
  \/ SetPriceGrowth
  \/ SetCostInflation
  \/ SetMonthlySamples
  \/ SetPfasPercent
  \/ ToggleLeaseIcp

SpecProjection == Init /\ [][NextProjection]_vars

(***************************************************************************)
(* The script with the operating-budget upload of spec 4.1 and 6.          *)
(***************************************************************************)
MaxLedgerRows == 2

LedgerAmounts == {0, 3000, 15000}

LedgerTables == UNION {[1..n -> LedgerAmounts] : n \in 1..MaxLedgerRows}

UploadLedger ==
  /\ \E rows \in LedgerTables : ledger' = rows
  /\ UNCHANGED <<ss, calc_in, calc_out>>

RemoveLedger ==
  /\ ledger # <<>>
  /\ ledger' = <<>>
  /\ UNCHANGED <<ss, calc_in, calc_out>>

NextLedger ==
  \/ UploadLedger
  \/ RemoveLedger
  \/ ToggleLeaseIcp
  \/ SetAdminStaff
  \/ SetMonthlySamples
  \/ SetCostInflation

SpecLedger == Init /\ [][NextLedger]_vars

(***************************************************************************)
(* The break-even calculation applied to inputs of the documented ranges:  *)
(* fixed cost, revenue and variable cost per sample >= 0, volume >= 0.     *)
(***************************************************************************)
CalcInputs ==
  [ monthly_fixed : {R(0), R(1000), R(56000)},
    avg_revenue_per_sample : {R(0), R(50), R(120)},
    avg_variable_cost_per_sample : {R(0), R(50), R(150)},
    monthly_samples : {0, 800},
    max_samples : {500, 2000} ]

InitCalc ==
  /\ ss = defaults
  /\ ledger = <<>>
  /\ calc_in \in {<<a>> : a \in CalcInputs}
  /\ calc_out = <<>>

Calculate ==
  /\ calc_out = <<>>
  /\ calc_out' = <<Dashboard(calc_in[1])>>
  /\ UNCHANGED <<ss, ledger, calc_in>>

NextCalc == Calculate

SpecCalc == InitCalc /\ [][NextCalc]_vars

(***************************************************************************)
(* One run of the whole script on sessions of the documented ranges:       *)
(* headcounts, prices, variable costs and fixed line items >= 0, the mix   *)
(* all zero, volume 0, and no purchased equipment (financed principal 0).  *)
(* Each case replaces the named entries of the defaults.                   *)
(***************************************************************************)
RangeCase(free_test, no_line_items, no_staff, no_mix, no_volume, no_variable_cost, no_purchase, no_lease_payment) ==
  LET a == IF free_test THEN [defaults EXCEPT !.pfas_test_price = 0] ELSE defaults
      b == IF no_line_items
           THEN [a EXCEPT !.lab_size_sqft = 0, !.utilities_monthly = 0, !.lab_cleaning = 0,
                          !.waste_disposal = 0, !.reagents_monthly = 0, !.gases_monthly = 0,
                          !.labware_consumables = 0, !.maintenance_contracts = 0,
                          !.lims_system_annual = 0, !.it_infrastructure = 0,
                          !.general_liability = 0, !.professional_liability = 0,
                          !.property_insurance = 0, !.workers_comp = 0,
                          !.annual_nelap_renewal = 0]
           ELSE a
      c == IF no_staff
           THEN [b EXCEPT !.laboratory_director = 0, !.senior_scientists = 0,
                          !.lab_technicians = 0, !.quality_manager = 0,
                          !.admin_staff = R(0)]
           ELSE b
      d == IF no_mix
           THEN [c EXCEPT !.pfas_percent = 0, !.metals_percent = 0,
                          !.microbiology_percent = 0, !.voc_percent = 0,
                          !.general_chem_percent = 0, !.specialty_percent = 0]
           ELSE c
      e == IF no_volume THEN [d EXCEPT !.monthly_samples = 0] ELSE d
      f == IF no_variable_cost
           THEN [e EXCEPT !.pfas_variable_cost = 0, !.metals_variable_cost = 0,
                          !.microbiology_variable_cost = 0, !.voc_variable_cost = 0,
                          !.general_chem_variable_cost = 0, !.specialty_variable_cost = 0]
           ELSE e
      g == IF no_purchase
           THEN [f EXCEPT !.gc_ms_cost = 0, !.microscopy_cost = 0,
                          !.sample_prep_equipment = 0, !.lab_furniture = 0,
                          !.other_equipment = 0]
           ELSE f
  IN  IF no_lease_payment
      THEN [g EXCEPT !.icp_ms_lease_payment = 0, !.ic_system_lease_payment = 0,
                     !.hplc_ms_lease_payment = 0]
      ELSE g

DocumentedRanges ==
  { RangeCase(p, i, h, m, v, c, e, l) :
      p \in BOOLEAN, i \in BOOLEAN, h \in BOOLEAN, m \in BOOLEAN,
      v \in BOOLEAN, c \in BOOLEAN, e \in BOOLEAN, l \in BOOLEAN }

InitRanges ==
  /\ ss \in DocumentedRanges
  /\ ledger = <<>>
  /\ calc_in = <<>>
  /\ calc_out = <<>>

RunScript ==
  /\ calc_out = <<>>
  /\ calc_out' = <<run_script(ss)>>
  /\ UNCHANGED <<ss, ledger, calc_in>>

NextRanges == RunScript

SpecRanges == InitRanges /\ [][NextRanges]_vars

(***************************************************************************)
(* Properties.                                                             *)
(***************************************************************************)
RECURSIVE SumInts(_)
SumInts(xs) == IF xs = <<>> THEN 0 ELSE Head(xs) + SumInts(Tail(xs))

\* C1: whenever the contribution margin (average revenue minus average
\* variable cost per sample) is strictly positive, the break-even volume is
\* finite and, unrounded, times the contribution margin gives back the
\* monthly fixed cost.
C1_BreakEvenRoundTrip ==
  LET margin == Margin
      breakeven == BreakEven
  IN  /\ REq(RAdd(margin, AvgVariableCost), AvgRevenue)
      /\ RGt(margin, R(0)) =>
           /\ ~IsInf(breakeven)
           /\ REq(RMul(breakeven, margin), Fixed)

C1_Witness ==
  /\ RGt(Margin, R(0))
  /\ RGt(BreakEven, R(ss.monthly_samples))
  /\ ~ss.lease_hplc_ms

\* C2: for every non-negative monthly fixed cost, zero included, a zero or
\* negative contribution margin gives the unreachable sentinel (infinity),
\* never a finite break-even volume.
C2_NoBreakEvenWithoutMargin ==
  calc_out # <<>> =>
    LET a == calc_in[1] IN
      RLe(a.avg_revenue_per_sample, a.avg_variable_cost_per_sample)
        => calc_out[1].break_even_samples = Inf

C2_Witness ==
  /\ calc_out # <<>>
  /\ calc_in[1].monthly_fixed = R(0)
  /\ RLt(calc_in[1].avg_revenue_per_sample, calc_in[1].avg_variable_cost_per_sample)
  /\ calc_out[1].break_even_samples = Inf

C4_ManualFixedCost ==
  ledger = <<>> =>
    LET payroll ==
          RDiv(RMul(RSum(<< R(ss.laboratory_director * ss.director_salary),
                            R(ss.senior_scientists * ss.scientist_salary),
                            R(ss.lab_technicians * ss.technician_salary),
                            R(ss.quality_manager * ss.qa_manager_salary),
                            RMul(ss.admin_staff, R(ss.admin_salary)) >>),
                    R(100 + ss.benefits_percent)),
               R(1200))
        monthlyItems == ss.utilities_monthly + ss.lab_cleaning + ss.waste_disposal
                        + ss.reagents_monthly + ss.gases_monthly
                        + ss.labware_consumables + ss.maintenance_contracts
        annualItems == ss.lims_system_annual + ss.it_infrastructure
                       + ss.general_liability + ss.professional_liability
                       + ss.property_insurance + ss.workers_comp
                       + ss.annual_nelap_renewal
        lineItems == RSum(<< monthly_rent(ss), monthly_equipment_payments(ss),
                             RDiv(R(12 * monthlyItems + annualItems), R(12)) >>)
    IN  REq(Fixed, RAdd(payroll, lineItems))

C4_Witness ==
  /\ ledger = <<>>
  /\ ss.admin_staff = Dec(20, 1)
  /\ ~ss.lease_icp_ms
  /\ RGt(Fixed, monthly_payroll(ss))

\* C5: with a non-empty cost ledger the monthly fixed cost behind break-even,
\* monthly profit, the profit curve and the projection is the sum of the
\* ledger's Monthly USD column whatever the manual inputs are: it replaces
\* the manual sum and is not added to it.
C5_LedgerReplacesManual ==
  ledger # <<>> =>
    LET total == R(SumInts(ledger))
        margin == Margin
    IN
      /\ REq(Fixed, total)
      /\ REq(RMul(BreakEven, margin), total)
      /\ REq(Ebitda, RSub(RMul(R(ss.monthly_samples), margin), total))
      /\ REq(ProfitData[1].MonthlyProfit, RNeg(total))
      /\ REq(ProjectionData[1].FixedCosts, RMul(R(12), total))

C5_Witness ==
  /\ Len(ledger) = 2
  /\ SumInts(ledger) = 18000
  /\ ~ss.lease_icp_ms
  /\ ss.admin_staff = Dec(20, 1)
  /\ RGt(monthly_fixed(ss), Fixed)

\* C6: revenue per sample is the sum over the test categories of percent/100
\* times price, and variable cost per sample the same sum over the variable
\* costs; the percentages are used as given, not renormalised, also when
\* they do not sum to 100.
C6_MixWeightedAverages ==
  /\ REq(AvgRevenue,
         RDiv(R(ss.pfas_percent * ss.pfas_test_price
                + ss.metals_percent * ss.metals_analysis_price
                + ss.microbiology_percent * ss.microbiology_price
                + ss.voc_percent * ss.voc_analysis_price
                + ss.general_chem_percent * ss.general_chemistry_price
                + ss.specialty_percent * ss.specialty_testing_price), R(100)))
  /\ REq(AvgVariableCost,
         RDiv(R(ss.pfas_percent * ss.pfas_variable_cost
                + ss.metals_percent * ss.metals_variable_cost
                + ss.microbiology_percent * ss.microbiology_variable_cost
                + ss.voc_percent * ss.voc_variable_cost
                + ss.general_chem_percent * ss.general_chem_variable_cost
                + ss.specialty_percent * ss.specialty_variable_cost), R(100)))

C6_Witness ==
  /\ ss.pfas_percent + ss.metals_percent + ss.microbiology_percent + ss.voc_percent
       + ss.general_chem_percent + ss.specialty_percent = 125
  /\ REq(AvgRevenue, Dec(31385, 2))

\* C7: monthly profit is volume times revenue per sample, minus volume times
\* variable cost per sample, minus the monthly fixed cost: volume times the
\* contribution margin minus the monthly fixed cost.
C7_MonthlyProfit ==
  LET ebitda == Ebitda
      fixed == Fixed
  IN  /\ REq(ebitda, RSub(RSub(RMul(R(ss.monthly_samples), AvgRevenue),
                               RMul(R(ss.monthly_samples), AvgVariableCost)), fixed))
      /\ REq(ebitda, RSub(RMul(R(ss.monthly_samples), Margin), fixed))

C7_Witness ==
  /\ ss.monthly_samples = 1400
  /\ RGt(Ebitda, R(0))
  /\ ss.pfas_percent = 40

\* C8: the profit curve has one point for each volume 0, 50, 100, ... up to
\* and including the largest multiple of 50 not above max_samples, in
\* increasing order; each point's profit is the contribution margin times
\* its volume minus the monthly fixed cost, so the first point is volume 0
\* with profit exactly minus the monthly fixed cost.
C8_ProfitCurve ==
  LET data == ProfitData
      n == Len(data)
      fixed == Fixed
      margin == Margin
  IN  /\ n = ss.max_samples \div 50 + 1
      /\ data[1].Samples = 0
      /\ REq(data[1].MonthlyProfit, RNeg(fixed))
      /\ data[n].Samples <= ss.max_samples
      /\ data[n].Samples + 50 > ss.max_samples
      /\ \A i \in 1..n :
           /\ data[i].Samples = 50 * (i - 1)
           /\ REq(data[i].MonthlyProfit, RSub(RMul(margin, R(data[i].Samples)), fixed))

C8_Witness ==
  /\ ss.max_samples = 500
  /\ ~ss.lease_ic_system
  /\ LET data == ProfitData IN Len(data) = 11 /\ data[11].Samples = 500

\* C9: the projection has 5 rows, for y = 0..4 in order, row y labelled
\* launch year + y, all on an annual basis: volume = monthly volume * 12 *
\* (1 + volume growth/100)^y, revenue = volume * revenue per sample *
\* (1 + price growth/100)^y, variable cost = volume * variable cost per
\* sample * (1 + cost inflation/100)^y, fixed cost = monthly fixed cost *
\* 12 * (1 + cost inflation/100)^y, and EBITDA = revenue - variable cost -
\* fixed cost, kept as it is when negative.
C9_YearlyProjection ==
  LET data == ProjectionData
      AvgRev == AvgRevenue
      AvgVar == AvgVariableCost
      fixed == Fixed
  IN
    /\ Len(data) = 5
    /\ \A y \in 0..4 :
         LET row == data[y + 1]
             vol == RDiv(RMul(R(ss.monthly_samples * 12), R((100 + ss.sample_growth)^y)),
                         R(100^y))
             rev == RDiv(RMul(RMul(vol, AvgRev), R((100 + ss.price_growth)^y)),
                         R(100^y))
             var == RDiv(RMul(RMul(vol, AvgVar), R((100 + ss.cost_inflation)^y)),
                         R(100^y))
             fix == RDiv(RMul(RMul(fixed, R(12)), R((100 + ss.cost_inflation)^y)),
                         R(100^y))
         IN  /\ row.Year = ss.launch_year + y
             /\ REq(row.Samples, vol)
             /\ REq(row.Revenue, rev)
             /\ REq(row.VariableCosts, var)
             /\ REq(row.FixedCosts, fix)
             /\ REq(row.EBITDA, RSub(RSub(rev, var), fix))

C9_Witness ==
  /\ ss.sample_growth = 15 /\ ss.price_growth = 4 /\ ss.cost_inflation = 5
  /\ ss.monthly_samples = 800
  /\ LET data == ProjectionData
     IN  RLt(data[1].EBITDA, R(0)) /\ RGt(data[5].EBITDA, R(0))

\* C10: with volume growth, price growth and cost inflation all 0, every row
\* of the projection has volume = monthly volume * 12, revenue = monthly
\* volume * 12 * revenue per sample, variable cost = monthly volume * 12 *
\* variable cost per sample and fixed cost = monthly fixed cost * 12; the
\* rows differ only in the year, and each row's EBITDA is 12 times the
\* monthly profit.
C10_FlatProjection ==
  (ss.sample_growth = 0 /\ ss.price_growth = 0 /\ ss.cost_inflation = 0) =>
    LET data == ProjectionData
        AvgRev == AvgRevenue
        AvgVar == AvgVariableCost
        fixed == Fixed
        ebitda == Ebitda
    IN
      \A i \in 1..Len(data) :
        /\ REq(data[i].Samples, R(ss.monthly_samples * 12))
        /\ REq(data[i].Revenue, RMul(R(ss.monthly_samples * 12), AvgRev))
        /\ REq(data[i].VariableCosts, RMul(R(ss.monthly_samples * 12), AvgVar))
        /\ REq(data[i].FixedCosts, RMul(fixed, R(12)))
        /\ REq(data[i].EBITDA, RMul(R(12), ebitda))
        /\ [data[i] EXCEPT !.Year = 0] = [data[1] EXCEPT !.Year = 0]

C10_Witness ==
  /\ ss.sample_growth = 0 /\ ss.price_growth = 0 /\ ss.cost_inflation = 0
  /\ ss.monthly_samples = 1400
  /\ LET data == ProjectionData
     IN  Len(data) = 5 /\ data[5].Year = ss.launch_year + 4

C12_BreakdownPartitionsFixed ==
  LET cats == cost_categories(ss)
      fixed == monthly_fixed(ss)
      items == {"utilities_monthly", "lab_cleaning", "waste_disposal", "reagents_monthly",
                "gases_monthly", "labware_consumables", "maintenance_contracts",
                "lims_system_annual", "it_infrastructure", "general_liability",
                "professional_liability", "property_insurance", "workers_comp",
                "annual_nelap_renewal"}
  IN  /\ Len(cats) = 10
      /\ REq(RSum([i \in 1..10 |-> cats[i].MonthlyCost]), fixed)
      /\ REq(cats[1].MonthlyCost, monthly_payroll(ss))
      /\ REq(cats[2].MonthlyCost, monthly_rent(ss))
      /\ REq(cats[3].MonthlyCost, monthly_equipment_payments(ss))
      /\ \A k \in items :
           LET more == [ss EXCEPT ![k] = @ + 1200]
               after == cost_categories(more)
               added == RSub(monthly_fixed(more), fixed)
               changed == {i \in 1..10 : ~REq(after[i].MonthlyCost, cats[i].MonthlyCost)}
           IN  /\ RGt(added, R(0))
               /\ Cardinality(changed) = 1
               /\ \A i \in changed :
                    REq(RSub(after[i].MonthlyCost, cats[i].MonthlyCost), added)

C12_Witness ==
  /\ ~ss.lease_icp_ms
  /\ ss.admin_staff = Dec(20, 1)
  /\ RGt(cost_categories(ss)[3].MonthlyCost, R(monthly_lease_total(ss)))
  /\ REq(RSum([i \in 1..10 |-> cost_categories(ss)[i].MonthlyCost]), monthly_fixed(ss))

C14_EquipmentCountedOnce ==
  LET leased == leased_equipment(ss)
      purchased == purchased_equipment(ss)
      lease_total == monthly_lease_total(ss)
      instruments ==
        { [box |-> "lease_icp_ms", cost |-> "icp_ms_cost", payment |-> "icp_ms_lease_payment"],
          [box |-> "lease_ic_system", cost |-> "ic_system_cost",
           payment |-> "ic_system_lease_payment"],
          [box |-> "lease_hplc_ms", cost |-> "hplc_ms_cost", payment |-> "hplc_ms_lease_payment"] }
      owned == {"gc_ms_cost", "microscopy_cost", "sample_prep_equipment", "lab_furniture",
                "other_equipment"}
  IN  /\ equipment_total(ss) =
           ss.icp_ms_cost + ss.ic_system_cost + ss.hplc_ms_cost + ss.gc_ms_cost
           + ss.microscopy_cost + ss.sample_prep_equipment + ss.lab_furniture
           + ss.other_equipment
      /\ \A m \in instruments :
           LET dearer == [ss EXCEPT ![m.cost] = @ + 5000]
               higher == [ss EXCEPT ![m.payment] = @ + 500]
           IN  /\ leased_equipment(dearer) - leased = (IF ss[m.box] THEN 5000 ELSE 0)
               /\ purchased_equipment(dearer) - purchased = (IF ss[m.box] THEN 0 ELSE 5000)
               /\ monthly_lease_total(higher) - lease_total = (IF ss[m.box] THEN 500 ELSE 0)
               /\ monthly_lease_total(dearer) = lease_total
      /\ \A k \in owned :
           LET dearer == [ss EXCEPT ![k] = @ + 5000]
           IN  /\ leased_equipment(dearer) = leased
               /\ purchased_equipment(dearer) - purchased = 5000
      /\ REq(RAdd(financed_principal(ss), equipment_down_payment(ss)), R(purchased))

C14_Witness ==
  /\ ss.lease_icp_ms /\ ~ss.lease_ic_system /\ ~ss.lease_hplc_ms
  /\ leased_equipment(ss) = ss.icp_ms_cost
  /\ monthly_lease_total(ss) = ss.icp_ms_lease_payment
  /\ purchased_equipment(ss) = equipment_total(ss) - ss.icp_ms_cost
  /\ REq(financed_principal(ss), RSub(R(purchased_equipment(ss)), equipment_down_payment(ss)))

====
